---- MODULE Spec2Model ----
(***************************************************************************)
(* A model of the process/protocol core of sublime-text-merlin:            *)
(* merlin/process.py (MerlinProcess: settings, binary_path,                *)
(* store_last_command, track_verbosity, exec, restart, command) and        *)
(* merlin/helpers.py (fmtpos).                                             *)
(*                                                                         *)
(* Python values are encoded as follows.                                   *)
(*   None / optional x      <<>>  /  <<x>>                                 *)
(*   list of strings        a sequence of strings                          *)
(*   decoded JSON value     [t |-> shape, v |-> canonical text]            *)
(* A call of command() or restart() is split at the points where it        *)
(* touches the outside world (Popen, communicate); pc is the position of   *)
(* the single calling thread and call is the frame of the latest call.     *)
(***************************************************************************)
EXTENDS Integers, Sequences, FiniteSets, TLC

VARIABLES
    _settings,           \* MerlinProcess._settings: None or the loaded settings object
    _binary_path,        \* MerlinProcess._binary_path: None or the resolved path
    _last_commands,      \* MerlinProcess._last_commands: list of (command, response, errors)
    _verbosity_counter,  \* MerlinProcess._verbosity_counter: (key, count)
    pc,                  \* position of the calling thread
    call,                \* frame of the latest command()/restart() call
    outcome,             \* how the latest call ended: returned value or raised exception
    ncalls,              \* number of calls started so far
    lastTracked,         \* (key, emitted count) of the latest tracked call since the session was (re)initialised
    fmt,                 \* latest fmtpos application: its argument and its result
    view                 \* the view of a MerlinView: its settings and its file name

vars == <<_settings, _binary_path, _last_commands, _verbosity_counter,
          pc, call, outcome, ncalls, lastTracked, fmt, view>>

sessionVars == <<_settings, _binary_path, _last_commands, _verbosity_counter,
                 pc, call, outcome, ncalls, lastTracked>>

----------------------------------------------------------------------------
(* Bounds of the model. *)

\* calls of command()/restart()/clear() in one behaviour of Spec
MaxCalls == 3
\* calls of command() in one behaviour of SpecHistory
MaxHistoryCalls == 7
\* calls of command() in one behaviour of SpecEnvelope
MaxEnvelopeCalls == 1
\* largest line / column number fed to fmtpos
MaxPos == 2
\* longest sequence fed to fmtpos
MaxSeqLen == 3
\* number of calls in SpecPath
MaxPathCalls == 3
\* number of calls in SpecVerbosity
MaxVerbosityCalls == 3
\* number of MerlinView operations in SpecView
MaxViewCalls == 2
\* number of MerlinView operations in SpecFresh
MaxFreshCalls == 4
\* length of the configured lists (extensions, packages, paths, flags) in SpecBuilder
MaxListLen == 2

----------------------------------------------------------------------------
(* Python values. *)

None == <<>>
Some(x) == <<x>>

\* `x or []` for an optional list
OrEmpty(o) == IF o = None THEN <<>> ELSE o[1]

\* str(n) for an integer
str(n) == ToString(n)

\* a Python object decoded from JSON (or None): its shape and its canonical text
PyValue(t, v) == [t |-> t, v |-> v]
PyNone == PyValue("null", "null")

----------------------------------------------------------------------------
(* helpers.fmtpos *)

\* lookup d[k] in a dict given as a set of <<key, value>> pairs
DictHas(d, k) == \E p \in d : p[1] = k
DictGet(d, k) == (CHOOSE p \in d : p[1] = k)[2]

FmtReturn(text) == [kind |-> "return", exc |-> "", text |-> text]
FmtRaise(exc) == [kind |-> "raise", exc |-> exc, text |-> ""]

\* "{0}:{1}".format(line, col)
format_pos(line, col) == str(line) \o ":" \o str(col)

fmtpos(arg) ==
    IF arg.shape = "None" THEN FmtReturn("end")
    ELSE IF arg.shape = "dict" THEN
        \* line = arg['line']; col = arg['col']: a missing key raises KeyError
        IF ~DictHas(arg.dict, "line") THEN FmtRaise("KeyError")
        ELSE IF ~DictHas(arg.dict, "col") THEN FmtRaise("KeyError")
        ELSE FmtReturn(format_pos(DictGet(arg.dict, "line"), DictGet(arg.dict, "col")))
    ELSE IF arg.shape \in {"tuple", "list"} THEN
        \* (line, col) = arg: unpacking a sequence of another length raises ValueError
        IF Len(arg.seq) # 2 THEN FmtRaise("ValueError")
        ELSE FmtReturn(format_pos(arg.seq[1], arg.seq[2]))
    ELSE FmtRaise("ValueError")

----------------------------------------------------------------------------
(* The tool's standard output and json.loads. *)

Quote(s) == "\"" \o s \o "\""

\* payloads of "value": JSON text and the shape it decodes to
Payloads ==
    { [text |-> "\"int -> int\"", t |-> "string"],
      [text |-> "{\"start\": 1}", t |-> "object"],
      [text |-> "[1, 2]", t |-> "array"],
      [text |-> "null", t |-> "null"] }

\* contents of "notifications": JSON text and the list it decodes to
Notifications ==
    { [text |-> "[]", msgs |-> <<>>],
      [text |-> "[\"n1\"]", msgs |-> <<"n1">>],
      [text |-> "[\"n1\", \"n2\"]", msgs |-> <<"n1", "n2">>] }

Classes == {"return", "failure", "error", "exception", "unknown"}

EnvelopeFields == {"class", "value", "notifications"}

NoPayload == [text |-> "", t |-> ""]
NoNotifications == [text |-> "", msgs |-> <<>>]

\* a JSON object with a subset of the envelope's fields
JsonObject(has, cls, val, notes) ==
    [has |-> has,
     class |-> IF "class" \in has THEN cls ELSE "",
     value |-> IF "value" \in has THEN val ELSE NoPayload,
     notifications |-> IF "notifications" \in has THEN notes ELSE NoNotifications]

JsonObjects ==
    { JsonObject(has, cls, val, notes) :
        has \in SUBSET EnvelopeFields, cls \in Classes,
        val \in Payloads, notes \in Notifications }

RECURSIVE Join(_)
Join(parts) ==
    IF parts = <<>> THEN ""
    ELSE IF Len(parts) = 1 THEN parts[1]
    ELSE parts[1] \o ", " \o Join(Tail(parts))

\* the text the tool writes for a JSON object
ObjectText(o) ==
    LET c == IF "class" \in o.has
             THEN <<Quote("class") \o ": " \o Quote(o.class)>> ELSE <<>>
        v == IF "value" \in o.has
             THEN <<Quote("value") \o ": " \o o.value.text>> ELSE <<>>
        n == IF "notifications" \in o.has
             THEN <<Quote("notifications") \o ": " \o o.notifications.text>> ELSE <<>>
    IN  "{" \o Join(c \o v \o n) \o "}"

\* JSON documents that are not objects
NonObjectJson == {"[]", "null", "\"ok\""}

\* texts that are not JSON at all
NonJson == {"", "Fatal error: exception Not_found"}

NoObject == JsonObject({}, "", NoPayload, NoNotifications)

\* json.loads(text): the decoded document, or ValueError
json_loads(text) ==
    IF \E o \in JsonObjects : ObjectText(o) = text
    THEN [ok |-> TRUE, type |-> "object",
          obj |-> CHOOSE o \in JsonObjects : ObjectText(o) = text]
    ELSE IF text \in NonObjectJson
    THEN [ok |-> TRUE, type |-> "other", obj |-> NoObject]
    ELSE [ok |-> FALSE, type |-> "", obj |-> NoObject]

\* the decoded Python object of a payload
Decode(val) == PyValue(val.t, val.text)

----------------------------------------------------------------------------
(* MerlinProcess: session state and its helpers. *)

\* len(self._last_commands) > 5
HistoryMax == 5

\* the settings object returned by sublime.load_settings
Loaded == Some("Merlin.sublime-settings")

\* store_last_command without the eviction of the last entry
store_last_command_NoEvict(hist, command, response, errors) ==
    IF hist # <<>> /\ hist[1] = <<command, None, None>>
    THEN [hist EXCEPT ![1] = <<command, response, errors>>]
    ELSE <<<<command, response, errors>>>> \o hist

\* store_last_command that always inserts, never updating the pending entry
store_last_command_AlwaysInsert(hist, command, response, errors) ==
    LET ins == <<<<command, response, errors>>>> \o hist
    IN  IF Len(ins) > HistoryMax THEN SubSeq(ins, 1, Len(ins) - 1) ELSE ins

\* store_last_command that overwrites the front entry whatever it holds
store_last_command_OverwriteFront(hist, command, response, errors) ==
    IF hist # <<>>
    THEN [hist EXCEPT ![1] = <<command, response, errors>>]
    ELSE <<<<command, response, errors>>>>

\* MerlinProcess.store_last_command: the new value of _last_commands
store_last_command(hist, command, response, errors) ==
    IF hist # <<>> /\ hist[1] = <<command, None, None>>
    THEN [hist EXCEPT ![1] = <<command, response, errors>>]
    ELSE LET ins == <<<<command, response, errors>>>> \o hist
         IN  IF Len(ins) > HistoryMax THEN SubSeq(ins, 1, Len(ins) - 1) ELSE ins

\* tracking keys: None, True, or a literal key (a list of strings)
KeyNone == [tag |-> "None", list |-> <<>>]
KeyTrue == [tag |-> "True", list |-> <<>>]
KeyList(l) == [tag |-> "List", list |-> l]

\* Python truth value of a tracking key
Truthy(key) == key.tag = "True" \/ (key.tag = "List" /\ key.list # <<>>)

\* the key track_verbosity stores and compares (for a truthy key)
EffectiveKey(key, args) == IF key.tag = "True" THEN args ELSE key.list

\* track_verbosity that forgets the counter on a call without a key
track_verbosity_UntrackedResets(counter, key, args) ==
    IF Truthy(key)
    THEN LET k == EffectiveKey(key, args)
             c == IF counter[1] = Some(k)
                  THEN <<Some(k), Some(counter[2][1] + 1)>>
                  ELSE <<Some(k), Some(0)>>
         IN  [counter |-> c, tokens |-> <<"-verbosity", str(c[2][1])>>]
    ELSE [counter |-> <<None, None>>, tokens |-> <<>>]

\* track_verbosity that keeps counting when the key changes
track_verbosity_NoReset(counter, key, args) ==
    IF Truthy(key)
    THEN LET k == EffectiveKey(key, args)
             c == IF counter[2] # None
                  THEN <<Some(k), Some(counter[2][1] + 1)>>
                  ELSE <<Some(k), Some(0)>>
         IN  [counter |-> c, tokens |-> <<"-verbosity", str(c[2][1])>>]
    ELSE [counter |-> counter, tokens |-> <<>>]

\* MerlinProcess.track_verbosity: the new counter and the tokens returned
track_verbosity(counter, key, args) ==
    IF Truthy(key)
    THEN LET k == EffectiveKey(key, args)
             c == IF counter[1] = Some(k)
                  THEN <<Some(k), Some(counter[2][1] + 1)>>
                  ELSE <<Some(k), Some(0)>>
         IN  [counter |-> c, tokens |-> <<"-verbosity", str(c[2][1])>>]
    ELSE [counter |-> counter, tokens |-> <<>>]

\* for x in list: cmdline.extend([flag, x])
FlagEach(flag, list) ==
    [i \in 1..(2 * Len(list)) |-> IF i % 2 = 1 THEN flag ELSE list[i \div 2]]

\* cmdline_of with the packages emitted before the extensions
cmdline_of_PackagesFirst(req, verbosity, flags) ==
    <<"server">> \o req.args
    \o (IF req.filename # None /\ req.filename[1] # ""
        THEN <<"-filename", req.filename[1]>> ELSE <<>>)
    \o verbosity
    \o FlagEach("-package", OrEmpty(req.packages))
    \o FlagEach("-extension", OrEmpty(req.extensions))
    \o FlagEach("-dot-merlin", OrEmpty(req.dot_merlins))
    \o FlagEach("-build-path", OrEmpty(req.build_path))
    \o FlagEach("-source-path", OrEmpty(req.source_path))
    \o (IF req.debug THEN <<"-log-file", "-">> ELSE <<>>)
    \o flags
    \o OrEmpty(req.other_flags)

\* MerlinProcess.command, lines 150-181: the argument list, given the verbosity
\* tokens and the global flags read from the settings
cmdline_of(req, verbosity, flags) ==
    <<"server">> \o req.args
    \o (IF req.filename # None /\ req.filename[1] # ""
        THEN <<"-filename", req.filename[1]>> ELSE <<>>)
    \o verbosity
    \o FlagEach("-extension", OrEmpty(req.extensions))
    \o FlagEach("-package", OrEmpty(req.packages))
    \o FlagEach("-dot-merlin", OrEmpty(req.dot_merlins))
    \o FlagEach("-build-path", OrEmpty(req.build_path))
    \o FlagEach("-source-path", OrEmpty(req.source_path))
    \o (IF req.debug THEN <<"-log-file", "-">> ELSE <<>>)
    \o flags
    \o OrEmpty(req.other_flags)

\* the arguments of a command() call
Request(args, binary_path, filename, extensions, packages, dot_merlins, other_flags, debug, build_path, source_path, track) ==
    [args |-> args, binary_path |-> binary_path, filename |-> filename,
     extensions |-> extensions, packages |-> packages, dot_merlins |-> dot_merlins,
     other_flags |-> other_flags, debug |-> debug, build_path |-> build_path,
     source_path |-> source_path, track_verbosity |-> track]

\* command(args, track_verbosity=track) with every other argument at its default
PlainRequest(args, track) ==
    Request(args, None, None, None, None, None, None, FALSE, None, None, track)

\* opam_bin_path (line 71) for an opam switch in the user's home
OpamBinPath == "/home/user/.opam/default/bin/ocamlmerlin"

\* resolve_binary_path that prefers opam's directory to the configured path
resolve_binary_path_OpamFirst(merlin_path, opam_has_merlin) ==
    IF opam_has_merlin THEN OpamBinPath
    ELSE IF merlin_path # None /\ merlin_path[1] # "" THEN merlin_path[1]
    ELSE "ocamlmerlin"

\* MerlinProcess.binary_path, lines 63-76: the path resolved from the configured
\* path (None or "" when unset) and the answer of the probe of opam's bin directory
resolve_binary_path(merlin_path, opam_has_merlin) ==
    IF merlin_path # None /\ merlin_path[1] # "" THEN merlin_path[1]
    ELSE IF opam_has_merlin THEN OpamBinPath
    ELSE "ocamlmerlin"

\* what a call returned or raised
NoOutcome == [kind |-> "none", exc |-> "", value |-> PyNone, log |-> <<>>]
Returned(value, log) == [kind |-> "return", exc |-> "", value |-> value, log |-> log]
Raised(exc, value, log) == [kind |-> "raise", exc |-> exc, value |-> value, log |-> log]

\* classify with the "error" branch raising Failure
classify_ErrorAsFailure(response) ==
    LET doc == json_loads(response)
        o == doc.obj
    IN  IF ~doc.ok THEN Raised("ValueError", PyNone, <<>>)
        ELSE IF doc.type # "object" THEN Raised("TypeError", PyNone, <<>>)
        ELSE IF "class" \notin o.has THEN Raised("KeyError", PyNone, <<>>)
        ELSE IF "value" \notin o.has THEN Raised("KeyError", PyNone, <<>>)
        ELSE IF "notifications" \notin o.has THEN Raised("KeyError", PyNone, <<>>)
        ELSE LET content == Decode(o.value)
                 log == o.notifications.msgs
             IN  IF o.class = "return" THEN Returned(content, log)
                 ELSE IF o.class = "failure" THEN Raised("Failure", content, log)
                 ELSE IF o.class = "error" THEN Raised("Failure", content, log)
                 ELSE IF o.class = "exception" THEN Raised("MerlinException", content, log)
                 ELSE Returned(PyNone, log)

\* classify with a notification raised instead of printed
classify_NotificationRaises(response) ==
    LET doc == json_loads(response)
        o == doc.obj
    IN  IF ~doc.ok THEN Raised("ValueError", PyNone, <<>>)
        ELSE IF doc.type # "object" THEN Raised("TypeError", PyNone, <<>>)
        ELSE IF "class" \notin o.has THEN Raised("KeyError", PyNone, <<>>)
        ELSE IF "value" \notin o.has THEN Raised("KeyError", PyNone, <<>>)
        ELSE IF "notifications" \notin o.has THEN Raised("KeyError", PyNone, <<>>)
        ELSE LET content == Decode(o.value)
                 log == o.notifications.msgs
             IN  IF log # <<>> THEN Raised("MerlinException", PyValue("string", log[1]), <<>>)
                 ELSE IF o.class = "return" THEN Returned(content, log)
                 ELSE IF o.class = "failure" THEN Raised("Failure", content, log)
                 ELSE IF o.class = "error" THEN Raised("Error", content, log)
                 ELSE IF o.class = "exception" THEN Raised("MerlinException", content, log)
                 ELSE Returned(PyNone, log)

\* MerlinProcess.command, lines 185-198: how the call ends on the tool's output
classify(response) ==
    LET doc == json_loads(response)
        o == doc.obj
    IN  IF ~doc.ok THEN Raised("ValueError", PyNone, <<>>)
        ELSE IF doc.type # "object" THEN Raised("TypeError", PyNone, <<>>)
        ELSE IF "class" \notin o.has THEN Raised("KeyError", PyNone, <<>>)
        ELSE IF "value" \notin o.has THEN Raised("KeyError", PyNone, <<>>)
        ELSE IF "notifications" \notin o.has THEN Raised("KeyError", PyNone, <<>>)
        ELSE LET content == Decode(o.value)
                 log == o.notifications.msgs
             IN  IF o.class = "return" THEN Returned(content, log)
                 ELSE IF o.class = "failure" THEN Raised("Failure", content, log)
                 ELSE IF o.class = "error" THEN Raised("Error", content, log)
                 ELSE IF o.class = "exception" THEN Raised("MerlinException", content, log)
                 ELSE Returned(PyNone, log)

----------------------------------------------------------------------------
(* Inputs of the specifications. *)

Tuple(line, col) == [shape |-> "tuple", seq |-> <<line, col>>, dict |-> {}]

\* MerlinView.report_errors: ["errors"]
ErrorsArgs == <<"errors">>
\* MerlinView.type_enclosing(1, 0): ["type-enclosing", "-position", fmtpos((line,col))]
TypeArgs == <<"type-enclosing", "-position", fmtpos(Tuple(1, 0)).text>>

\* the command() calls of Spec: untracked, tracked by the argument list, tracked
\* by a literal key, and a falsy literal key
Requests ==
    { PlainRequest(ErrorsArgs, KeyNone),
      PlainRequest(ErrorsArgs, KeyTrue),
      PlainRequest(TypeArgs, KeyTrue),
      PlainRequest(ErrorsArgs, KeyList(TypeArgs)),
      PlainRequest(TypeArgs, KeyList(<<>>)) }

\* the command() calls of SpecHistory: one whose command line never changes and
\* one whose command line changes with the verbosity count
HistoryRequests ==
    { PlainRequest(ErrorsArgs, KeyNone),
      PlainRequest(TypeArgs, KeyTrue) }

\* the command() call of SpecEnvelope
EnvelopeRequests == { PlainRequest(ErrorsArgs, KeyNone) }

\* a list of n distinct names
Names(prefix, n) == [i \in 1..n |-> prefix \o ToString(i)]

\* an optional list argument: absent, empty, or a list of MaxListLen names
ListChoices(prefix) == {None, Some(<<>>), Some(Names(prefix, MaxListLen))}

\* the command() calls of SpecBuilder: every optional argument absent, empty or given
BuilderRequests ==
    { Request(TypeArgs, None, filename, extensions, packages, dot_merlins, other_flags, debug, build_path, source_path, track) :
        filename \in {None, Some(""), Some("a.ml")},
        extensions \in ListChoices("ext"),
        packages \in ListChoices("pkg"),
        dot_merlins \in ListChoices(".merlin"),
        other_flags \in ListChoices("-flag"),
        debug \in BOOLEAN,
        build_path \in ListChoices("_build"),
        source_path \in ListChoices("src"),
        track \in {KeyNone, KeyTrue} }

\* settings().get('ocamlmerlin_flags') or [] in SpecBuilder
BuilderFlags == {<<>>, Names("-global", MaxListLen)}

\* a full envelope
Envelope(cls, val, notes) == JsonObject(EnvelopeFields, cls, val, notes)

ReturnText ==
    ObjectText(Envelope("return", CHOOSE v \in Payloads : v.t = "string",
                        CHOOSE n \in Notifications : n.msgs = <<>>))

\* the envelope of a call the tool answers with class cls
ClassText(cls) ==
    ObjectText(Envelope(cls, CHOOSE v \in Payloads : v.t = "string",
                        CHOOSE n \in Notifications : n.msgs = <<>>))

\* the command() calls of SpecVerbosity: two tracked calls with different keys
VerbosityRequests ==
    { PlainRequest(ErrorsArgs, KeyTrue),
      PlainRequest(TypeArgs, KeyTrue) }

\* what the tool writes to its standard output in SpecVerbosity: a result, each
\* raising class, and text that json.loads rejects
VerbosityOutputs ==
    {ReturnText, ClassText("failure"), ClassText("error"), ClassText("exception"), ""}

\* a path given to command() by its caller
ExplicitPath == "/opt/merlin/bin/ocamlmerlin"

\* the command() calls of SpecPath: without an explicit binary path, with one,
\* and with an empty one
PathRequests ==
    { PlainRequest(ErrorsArgs, KeyNone),
      Request(ErrorsArgs, Some(ExplicitPath), None, None, None, None, None, FALSE, None, None, KeyNone),
      Request(ErrorsArgs, Some(""), None, None, None, None, None, FALSE, None, None, KeyNone) }

\* settings().get('ocamlmerlin_path') in SpecPath: unset, empty, or a path
PathConfigured == {None, Some(""), Some("/usr/local/bin/ocamlmerlin")}

\* whether opam's bin directory holds an executable ocamlmerlin, in SpecPath
PathOpamAnswers == BOOLEAN

\* what the tool writes to its standard output in Spec
SessionOutputs == {ReturnText, ""}

\* what the tool writes to its standard output in SpecHistory
HistoryOutputs == {ReturnText}

\* what the tool writes to its standard output in SpecEnvelope: every full
\* envelope, every object lacking envelope fields, other JSON, and non-JSON
EnvelopeOutputs ==
    { ObjectText(o) : o \in JsonObjects } \cup NonObjectJson \cup NonJson

\* what the tool writes to its standard error
ErrorOutputs == {""}

\* settings().get('ocamlmerlin_flags')
GlobalFlags == {<<>>}

\* settings().get('ocamlmerlin_path') and the probe of opam's bin directory
ConfiguredPaths == {None}
OpamAnswers == {FALSE}

----------------------------------------------------------------------------
(* The frame of a call. *)

NoRequest == PlainRequest(<<>>, KeyNone)

\* the arguments of a MerlinView method: a list of names, a position, an
\* identifier and a kind, each where the method has one
NoInput == [names |-> <<>>, line |-> None, col |-> None, ident |-> "", kind |-> ""]

Frame(op, req, cmdline) ==
    [op |-> op, req |-> req, cmdline |-> cmdline,
     command |-> <<>>,          \* exec: command
     response |-> None,         \* exec: response
     errors |-> None,           \* exec: errors
     spawns |-> 0,              \* number of subprocess.Popen calls made by exec
     not_found |-> FALSE,       \* whether Popen found no executable at command[0]
     parsed |-> FALSE,          \* whether json.loads was applied to the response
     hist0 |-> <<>>,            \* _last_commands when exec was entered
     facade |-> "",             \* the MerlinView method that made the call, if any
     with_doc |-> "",           \* complete_cursor: settings().get("ocamlmerlin_complete_with_doc")
     input |-> NoInput,         \* the arguments of the MerlinView method
     merlin_path |-> None,      \* what settings().get('ocamlmerlin_path') holds when exec runs
     opam_has_merlin |-> FALSE, \* whether opam's bin directory holds the tool when exec runs
     flags |-> <<>>]            \* command: settings().get('ocamlmerlin_flags') or []

NoFrame == Frame("none", NoRequest, <<>>)

\* the count emitted after "-verbosity" in an argument list
int_of(token) == CHOOSE n \in 0..(MaxCalls + MaxHistoryCalls) : str(n) = token
HasVerbosity(cmdline) == \E i \in 1..Len(cmdline) : cmdline[i] = "-verbosity"
EmittedVerbosity(cmdline) ==
    int_of(cmdline[1 + CHOOSE i \in 1..Len(cmdline) : cmdline[i] = "-verbosity"])

NoFmt == [arg |-> [shape |-> "none", seq |-> <<>>, dict |-> {}], result |-> FmtRaise("")]

\* the settings of a view, by key, and the name of its file
ViewOf(path, dot_merlins, extensions, flags, packages, buildpath, sourcepath, file_name) ==
    [ocamlmerlin_path |-> path,
     ocamlmerlin_dot_merlins |-> dot_merlins,
     ocamlmerlin_extensions |-> extensions,
     ocamlmerlin_flags |-> flags,
     ocamlmerlin_packages |-> packages,
     ocamlmerlin_buildpath |-> buildpath,
     ocamlmerlin_sourcepath |-> sourcepath,
     file_name |-> file_name]

\* a view with no Merlin setting and no file
BareView == ViewOf(None, None, None, None, None, None, None, None)

\* a view of a.ml with its project's settings
ConfiguredView ==
    ViewOf(None, Some(<<".merlin">>), Some(<<"meta">>), Some(<<"-w", "+a">>),
           Some(<<"batteries">>), Some(<<"_build">>), Some(<<"src">>), Some("a.ml"))

\* the views of SpecView and SpecFresh
Views == {BareView, ConfiguredView}

\* the values that follow flag in an argument list, in order
RECURSIVE ValuesOf(_, _)
ValuesOf(flag, cmdline) ==
    IF Len(cmdline) < 2 THEN <<>>
    ELSE IF Head(cmdline) = flag
    THEN <<cmdline[2]>> \o ValuesOf(flag, SubSeq(cmdline, 3, Len(cmdline)))
    ELSE ValuesOf(flag, Tail(cmdline))

\* MerlinView.command with the lists of the previous invocation kept instead of
\* read again
ViewRequest_Stale(args, track) ==
    LET stale == _last_commands # <<>>
        last == _last_commands[1][1]
    IN  Request(args, view.ocamlmerlin_path, view.file_name,
                IF stale THEN Some(ValuesOf("-extension", last)) ELSE view.ocamlmerlin_extensions,
                IF stale THEN Some(ValuesOf("-package", last)) ELSE view.ocamlmerlin_packages,
                view.ocamlmerlin_dot_merlins, view.ocamlmerlin_flags, FALSE,
                IF stale THEN Some(ValuesOf("-build-path", last)) ELSE view.ocamlmerlin_buildpath,
                IF stale THEN Some(ValuesOf("-source-path", last)) ELSE view.ocamlmerlin_sourcepath,
                track)

\* MerlinView.command, lines 210-223: the arguments passed to process.command,
\* read from the view's settings (settings.get returns a copy of the stored value)
ViewRequest(args, track) ==
    Request(args, view.ocamlmerlin_path, view.file_name, view.ocamlmerlin_extensions,
            view.ocamlmerlin_packages, view.ocamlmerlin_dot_merlins, view.ocamlmerlin_flags,
            FALSE, view.ocamlmerlin_buildpath, view.ocamlmerlin_sourcepath, track)

\* a MerlinView method that does not call process.command
MutatorFrame(facade, names) ==
    [Frame("mutate", NoRequest, <<>>) EXCEPT !.facade = facade, !.hist0 = _last_commands,
                                             !.input = [NoInput EXCEPT !.names = names]]

\* the elements of a list
Range(list) == { list[i] : i \in 1..Len(list) }

\* for ext in exts: if not ext in merlin_exts: merlin_exts.append(ext)
RECURSIVE AppendMissing(_, _)
AppendMissing(merlin_exts, exts) ==
    IF exts = <<>> THEN merlin_exts
    ELSE AppendMissing(IF Head(exts) \in Range(merlin_exts) THEN merlin_exts
                       ELSE Append(merlin_exts, Head(exts)),
                       Tail(exts))

\* list.remove(x): the list without the first occurrence of x
RemoveFirst(list, x) ==
    LET i == CHOOSE j \in 1..Len(list) : list[j] = x /\ \A k \in 1..(j - 1) : list[k] # x
    IN  SubSeq(list, 1, i - 1) \o SubSeq(list, i + 1, Len(list))

\* for ext in exts: if ext in merlin_exts: merlin_exts.remove(ext)
RECURSIVE RemovePresent(_, _)
RemovePresent(merlin_exts, exts) ==
    IF exts = <<>> THEN merlin_exts
    ELSE RemovePresent(IF Head(exts) \in Range(merlin_exts)
                       THEN RemoveFirst(merlin_exts, Head(exts)) ELSE merlin_exts,
                       Tail(exts))

Init ==
    /\ _settings = None
    /\ _binary_path = None
    /\ _last_commands = <<>>
    /\ _verbosity_counter = <<None, None>>
    /\ pc = "idle"
    /\ call = NoFrame
    /\ outcome = NoOutcome
    /\ ncalls = 0
    /\ lastTracked = <<None, None>>
    /\ fmt = NoFmt
    /\ view = BareView

----------------------------------------------------------------------------
(* MerlinProcess.command, MerlinProcess.exec, MerlinProcess.restart *)

\* command(), lines 150-181: build the argument list (advancing the verbosity
\* counter and loading the settings), then enter exec
StartCommand(reqs, flagsets, limit) ==
    /\ pc = "idle"
    /\ ncalls < limit
    /\ \E req \in reqs, flags \in flagsets :
          LET tv == track_verbosity(_verbosity_counter, req.track_verbosity, req.args)
              cmdline == cmdline_of(req, tv.tokens, flags)
          IN  /\ _verbosity_counter' = tv.counter
              /\ call' = [Frame("command", req, cmdline) EXCEPT !.flags = flags]
              /\ lastTracked' =
                    IF Truthy(req.track_verbosity)
                    THEN <<Some(EffectiveKey(req.track_verbosity, req.args)),
                           Some(EmittedVerbosity(cmdline))>>
                    ELSE lastTracked
    /\ _settings' = Loaded
    /\ pc' = "exec"
    /\ outcome' = NoOutcome
    /\ ncalls' = ncalls + 1
    /\ UNCHANGED <<_binary_path, _last_commands, fmt, view>>

\* restart(), line 141: enter exec(["server", "stop-server"])
StartRestart(limit) ==
    /\ pc = "idle"
    /\ ncalls < limit
    /\ call' = Frame("restart", NoRequest, <<"server", "stop-server">>)
    /\ pc' = "exec"
    /\ outcome' = NoOutcome
    /\ ncalls' = ncalls + 1
    /\ UNCHANGED <<_settings, _binary_path, _last_commands, _verbosity_counter,
                   lastTracked, fmt, view>>

\* ExecStore that resolves the binary path on every call, caching nothing
ExecStore_NoCache(cfgPaths, opamAnswers) ==
    /\ pc = "exec"
    /\ \E merlin_path \in cfgPaths, opam_has_merlin \in opamAnswers :
          LET resolve == call.req.binary_path = None
              path == IF call.req.binary_path # None THEN call.req.binary_path[1]
                      ELSE resolve_binary_path(merlin_path, opam_has_merlin)
              command == <<path>> \o call.cmdline
          IN  /\ _binary_path' = IF resolve THEN Some(path) ELSE _binary_path
              /\ _settings' = IF resolve THEN Loaded ELSE _settings
              /\ _last_commands' = store_last_command(_last_commands, command, None, None)
              /\ call' = [call EXCEPT !.command = command, !.hist0 = _last_commands,
                                      !.merlin_path = merlin_path,
                                      !.opam_has_merlin = opam_has_merlin]
    /\ pc' = "spawn"
    /\ UNCHANGED <<_verbosity_counter, outcome, ncalls, lastTracked, fmt, view>>

\* exec(), lines 103-107: resolve the binary path, build the command and record
\* it as pending
ExecStore(cfgPaths, opamAnswers) ==
    /\ pc = "exec"
    /\ \E merlin_path \in cfgPaths, opam_has_merlin \in opamAnswers :
          LET resolve == call.req.binary_path = None /\ _binary_path = None
              path == IF call.req.binary_path # None THEN call.req.binary_path[1]
                      ELSE IF _binary_path # None THEN _binary_path[1]
                      ELSE resolve_binary_path(merlin_path, opam_has_merlin)
              command == <<path>> \o call.cmdline
          IN  /\ _binary_path' = IF resolve THEN Some(path) ELSE _binary_path
              /\ _settings' = IF resolve THEN Loaded ELSE _settings
              /\ _last_commands' = store_last_command(_last_commands, command, None, None)
              /\ call' = [call EXCEPT !.command = command, !.hist0 = _last_commands,
                                      !.merlin_path = merlin_path,
                                      !.opam_has_merlin = opam_has_merlin]
    /\ pc' = "spawn"
    /\ UNCHANGED <<_verbosity_counter, outcome, ncalls, lastTracked, fmt, view>>

\* Popen with a failed spawn tried again instead of raised
Popen_Retry ==
    /\ pc = "spawn"
    /\ \E executable \in BOOLEAN :
          /\ call' = [call EXCEPT !.spawns = @ + 1, !.not_found = ~executable]
          /\ IF executable
             THEN pc' = "communicate" /\ outcome' = outcome
             ELSE pc' = "spawn" /\ outcome' = outcome
    /\ UNCHANGED <<_settings, _binary_path, _last_commands, _verbosity_counter,
                   ncalls, lastTracked, fmt, view>>

\* exec(), lines 111-130 and 135-138: subprocess.Popen either starts the tool or
\* raises OSError (FileNotFoundError, PermissionError), which exec re-raises
Popen ==
    /\ pc = "spawn"
    /\ \E executable \in BOOLEAN :
          /\ call' = [call EXCEPT !.spawns = @ + 1, !.not_found = ~executable]
          /\ IF executable
             THEN pc' = "communicate" /\ outcome' = outcome
             ELSE pc' = "idle" /\ outcome' = Raised("OSError", PyNone, <<>>)
    /\ UNCHANGED <<_settings, _binary_path, _last_commands, _verbosity_counter,
                   ncalls, lastTracked, fmt, view>>

\* exec(), lines 132-134: wait for the tool, record its output and return it
Communicate(outs, errs) ==
    /\ pc = "communicate"
    /\ \E response \in outs, errors \in errs :
          /\ _last_commands' = store_last_command(_last_commands, call.command,
                                                   Some(response), Some(errors))
          /\ call' = [call EXCEPT !.response = Some(response), !.errors = Some(errors)]
    /\ pc' = IF call.op = "restart" THEN "clear" ELSE "parse"
    /\ UNCHANGED <<_settings, _binary_path, _verbosity_counter, outcome, ncalls,
                   lastTracked, fmt, view>>

\* Parse that takes back the verbosity count of a call that raises
Parse_RollsBack ==
    /\ pc = "parse"
    /\ outcome' = classify(call.response[1])
    /\ _verbosity_counter' =
          IF classify(call.response[1]).kind = "raise" /\ _verbosity_counter[2] # None
          THEN IF _verbosity_counter[2][1] = 0 THEN <<None, None>>
               ELSE <<_verbosity_counter[1], Some(_verbosity_counter[2][1] - 1)>>
          ELSE _verbosity_counter
    /\ call' = [call EXCEPT !.parsed = TRUE]
    /\ pc' = "idle"
    /\ UNCHANGED <<_settings, _binary_path, _last_commands, ncalls, lastTracked, fmt, view>>

\* command(), lines 184-198: decode the response and return or raise
Parse ==
    /\ pc = "parse"
    /\ outcome' = classify(call.response[1])
    /\ call' = [call EXCEPT !.parsed = TRUE]
    /\ pc' = "idle"
    /\ UNCHANGED <<_settings, _binary_path, _last_commands, _verbosity_counter,
                   ncalls, lastTracked, fmt, view>>

\* restart(), line 142: self.clear()
RestartClear ==
    /\ pc = "clear"
    /\ _settings' = None
    /\ _binary_path' = None
    /\ _last_commands' = <<>>
    /\ _verbosity_counter' = <<None, None>>
    /\ lastTracked' = <<None, None>>
    /\ outcome' = Returned(PyNone, <<>>)
    /\ pc' = "idle"
    /\ UNCHANGED <<call, ncalls, fmt, view>>

\* clear(), called on its own
Clear(limit) ==
    /\ pc = "idle"
    /\ ncalls < limit
    /\ _settings' = None
    /\ _binary_path' = None
    /\ _last_commands' = <<>>
    /\ _verbosity_counter' = <<None, None>>
    /\ lastTracked' = <<None, None>>
    /\ call' = Frame("clear", NoRequest, <<>>)
    /\ outcome' = Returned(PyNone, <<>>)
    /\ ncalls' = ncalls + 1
    /\ UNCHANGED <<pc, fmt, view>>

----------------------------------------------------------------------------
(* MerlinView *)

\* a session and a view as constructed
InitView ==
    /\ _settings = None
    /\ _binary_path = None
    /\ _last_commands = <<>>
    /\ _verbosity_counter = <<None, None>>
    /\ pc = "idle"
    /\ call = NoFrame
    /\ outcome = NoOutcome
    /\ ncalls = 0
    /\ lastTracked = <<None, None>>
    /\ fmt = NoFmt
    /\ view \in Views

\* settings().get("ocamlmerlin_complete_with_doc"): unset, false or true
DocToggle == {"None", "False", "True"}

\* MerlinView.command, lines 209-223, entering MerlinProcess.command with the
\* view's settings: build the argument list, then enter exec
ViewCommand(facade, args, track, with_doc, input, limit) ==
    /\ pc = "idle"
    /\ ncalls < limit
    /\ \E flags \in GlobalFlags :
          LET req == ViewRequest(args, track)
              tv == track_verbosity(_verbosity_counter, req.track_verbosity, req.args)
              cmdline == cmdline_of(req, tv.tokens, flags)
          IN  /\ _verbosity_counter' = tv.counter
              /\ call' = [Frame("command", req, cmdline) EXCEPT
                            !.flags = flags, !.facade = facade,
                            !.with_doc = with_doc, !.input = input]
              /\ lastTracked' =
                    IF Truthy(req.track_verbosity)
                    THEN <<Some(EffectiveKey(req.track_verbosity, req.args)),
                           Some(EmittedVerbosity(cmdline))>>
                    ELSE lastTracked
    /\ _settings' = Loaded
    /\ pc' = "exec"
    /\ outcome' = NoOutcome
    /\ ncalls' = ncalls + 1
    /\ UNCHANGED <<_binary_path, _last_commands, fmt, view>>

\* complete_cursor with "-doc" "y" whatever the setting
complete_cursor_DocYes(limit) ==
    \E base \in {"Li"}, with_doc \in DocToggle :
        ViewCommand("complete_cursor",
                    <<"complete-prefix", "-position", fmtpos(Tuple(10, 3)).text,
                      "-prefix", base, "-doc", "y">>,
                    KeyTrue, with_doc,
                    [NoInput EXCEPT !.names = <<base>>, !.line = Some(10), !.col = Some(3)],
                    limit)

\* MerlinView.complete_cursor(base, 10, 3), lines 225-231
complete_cursor(limit) ==
    \E base \in {"Li"}, with_doc \in DocToggle :
        ViewCommand("complete_cursor",
                    <<"complete-prefix", "-position", fmtpos(Tuple(10, 3)).text,
                      "-prefix", base, "-doc", IF with_doc = "True" THEN "y" ELSE "n">>,
                    KeyTrue, with_doc,
                    [NoInput EXCEPT !.names = <<base>>, !.line = Some(10), !.col = Some(3)],
                    limit)

\* MerlinView.report_errors, lines 233-237
report_errors(limit) == ViewCommand("report_errors", <<"errors">>, KeyNone, "", NoInput, limit)

\* MerlinView.find_list, lines 239-241
find_list(limit) == ViewCommand("find_list", <<"findlib-list">>, KeyNone, "", NoInput, limit)

\* MerlinView.project, lines 247-255: self.send_query does not exist, so the
\* attribute lookup raises AttributeError before anything is run
project(limit) ==
    /\ pc = "idle"
    /\ ncalls < limit
    /\ call' = [Frame("command", NoRequest, <<>>) EXCEPT
                  !.facade = "project", !.hist0 = _last_commands]
    /\ outcome' = Raised("AttributeError", PyNone, <<>>)
    /\ ncalls' = ncalls + 1
    /\ UNCHANGED <<_settings, _binary_path, _last_commands, _verbosity_counter,
                   pc, lastTracked, fmt, view>>

\* MerlinView.which_path(names), lines 275-279
which_path(limit) ==
    \E names \in {<<"a.ml", "b.ml">>} :
        ViewCommand("which_path", <<"path-of-source">> \o FlagEach("-file", names),
                    KeyNone, "", [NoInput EXCEPT !.names = names], limit)

\* MerlinView.which_with_ext(extensions), lines 281-285
which_with_ext(limit) ==
    \E extensions \in {<<".ml", ".mli">>} :
        ViewCommand("which_with_ext", <<"list-modules">> \o FlagEach("-ext", extensions),
                    KeyNone, "", [NoInput EXCEPT !.names = extensions], limit)

\* MerlinView.type_enclosing(1, 0), lines 288-290
type_enclosing(limit) ==
    ViewCommand("type_enclosing", <<"type-enclosing", "-position", fmtpos(Tuple(1, 0)).text>>,
                KeyTrue, "", [NoInput EXCEPT !.line = Some(1), !.col = Some(0)], limit)

\* MerlinView.extension_list, lines 293-294
extension_list(limit) ==
    ViewCommand("extension_list", <<"extension-list">>, KeyNone, "", NoInput, limit)

\* MerlinView.locate(line, col, ident, kind), lines 310-314
locate(limit) ==
    \E pos \in {<<None, None>>, <<Some(1), Some(0)>>}, ident \in {"x"}, kind \in {"mli"} :
        ViewCommand("locate",
                    <<"locate", "-look-for", kind>>
                    \o (IF ~(pos[1] = None \/ pos[2] = None) THEN <<"-prefix", ident>> ELSE <<>>),
                    KeyNone, "",
                    [NoInput EXCEPT !.line = pos[1], !.col = pos[2], !.ident = ident, !.kind = kind],
                    limit)

\* MerlinView.set_packages(packages), lines 243-245
set_packages(limit) ==
    /\ pc = "idle"
    /\ ncalls < limit
    /\ \E packages \in {<<"core">>} :
          /\ view' = [view EXCEPT !.ocamlmerlin_packages = Some(packages)]
          /\ call' = MutatorFrame("set_packages", packages)
    /\ outcome' = Returned(PyNone, <<>>)
    /\ ncalls' = ncalls + 1
    /\ UNCHANGED <<_settings, _binary_path, _last_commands, _verbosity_counter,
                   pc, lastTracked, fmt>>

\* MerlinView.add_build_path(path), lines 261-264: the path is appended to the
\* copy returned by list_build_path, then self.view.settings.set looks up "set"
\* on the bound method settings and raises AttributeError; nothing is stored
add_build_path(limit) ==
    /\ pc = "idle"
    /\ ncalls < limit
    /\ \E path \in {"_build/lib"} :
          LET paths == Append(OrEmpty(view.ocamlmerlin_buildpath), path)
          IN  call' = MutatorFrame("add_build_path", <<path>>)
    /\ outcome' = Raised("AttributeError", PyNone, <<>>)
    /\ ncalls' = ncalls + 1
    /\ UNCHANGED <<_settings, _binary_path, _last_commands, _verbosity_counter,
                   pc, lastTracked, fmt, view>>

\* MerlinView.add_source_path(path), lines 269-272: as add_build_path
add_source_path(limit) ==
    /\ pc = "idle"
    /\ ncalls < limit
    /\ \E path \in {"lib"} :
          LET paths == Append(OrEmpty(view.ocamlmerlin_sourcepath), path)
          IN  call' = MutatorFrame("add_source_path", <<path>>)
    /\ outcome' = Raised("AttributeError", PyNone, <<>>)
    /\ ncalls' = ncalls + 1
    /\ UNCHANGED <<_settings, _binary_path, _last_commands, _verbosity_counter,
                   pc, lastTracked, fmt, view>>

\* MerlinView.extension_enable(exts), lines 296-301: `ext in merlin_exts` raises
\* TypeError when the setting is None
extension_enable(limit) ==
    /\ pc = "idle"
    /\ ncalls < limit
    /\ \E exts \in {<<"lwt">>} :
          LET merlin_exts == view.ocamlmerlin_extensions
          IN  /\ call' = MutatorFrame("extension_enable", exts)
              /\ IF merlin_exts = None /\ exts # <<>>
                 THEN /\ outcome' = Raised("TypeError", PyNone, <<>>)
                      /\ view' = view
                 ELSE /\ outcome' = Returned(PyNone, <<>>)
                      /\ view' = [view EXCEPT !.ocamlmerlin_extensions =
                                     IF merlin_exts = None THEN None
                                     ELSE Some(AppendMissing(merlin_exts[1], exts))]
    /\ ncalls' = ncalls + 1
    /\ UNCHANGED <<_settings, _binary_path, _last_commands, _verbosity_counter,
                   pc, lastTracked, fmt>>

\* MerlinView.extension_disable(exts), lines 303-308: as extension_enable
extension_disable(limit) ==
    /\ pc = "idle"
    /\ ncalls < limit
    /\ \E exts \in {<<"meta">>} :
          LET merlin_exts == view.ocamlmerlin_extensions
          IN  /\ call' = MutatorFrame("extension_disable", exts)
              /\ IF merlin_exts = None /\ exts # <<>>
                 THEN /\ outcome' = Raised("TypeError", PyNone, <<>>)
                      /\ view' = view
                 ELSE /\ outcome' = Returned(PyNone, <<>>)
                      /\ view' = [view EXCEPT !.ocamlmerlin_extensions =
                                     IF merlin_exts = None THEN None
                                     ELSE Some(RemovePresent(merlin_exts[1], exts))]
    /\ ncalls' = ncalls + 1
    /\ UNCHANGED <<_settings, _binary_path, _last_commands, _verbosity_counter,
                   pc, lastTracked, fmt>>

----------------------------------------------------------------------------
(* Specifications. *)

Next ==
    \/ StartCommand(Requests, GlobalFlags, MaxCalls)
    \/ StartRestart(MaxCalls)
    \/ Clear(MaxCalls)
    \/ ExecStore(ConfiguredPaths, OpamAnswers)
    \/ Popen
    \/ Communicate(SessionOutputs, ErrorOutputs)
    \/ Parse
    \/ RestartClear

Spec == Init /\ [][Next]_vars

\* long runs of command() calls, to fill the command history
NextHistory ==
    \/ StartCommand(HistoryRequests, GlobalFlags, MaxHistoryCalls)
    \/ ExecStore(ConfiguredPaths, OpamAnswers)
    \/ Popen
    \/ Communicate(HistoryOutputs, ErrorOutputs)
    \/ Parse

SpecHistory == Init /\ [][NextHistory]_vars

\* command() calls on every output of the tool
NextEnvelope ==
    \/ StartCommand(EnvelopeRequests, GlobalFlags, MaxEnvelopeCalls)
    \/ ExecStore(ConfiguredPaths, OpamAnswers)
    \/ Popen
    \/ Communicate(EnvelopeOutputs, ErrorOutputs)
    \/ Parse

SpecEnvelope == Init /\ [][NextEnvelope]_vars

\* one command() call on every combination of optional arguments
NextBuilder ==
    \/ StartCommand(BuilderRequests, BuilderFlags, 1)
    \/ ExecStore(ConfiguredPaths, OpamAnswers)
    \/ Popen
    \/ Communicate(HistoryOutputs, ErrorOutputs)
    \/ Parse

SpecBuilder == Init /\ [][NextBuilder]_vars

\* calls, restarts and clears while the configured path and opam's directory change
NextPath ==
    \/ StartCommand(PathRequests, GlobalFlags, MaxPathCalls)
    \/ StartRestart(MaxPathCalls)
    \/ Clear(MaxPathCalls)
    \/ ExecStore(PathConfigured, PathOpamAnswers)
    \/ Popen
    \/ Communicate(HistoryOutputs, ErrorOutputs)
    \/ Parse
    \/ RestartClear

SpecPath == Init /\ [][NextPath]_vars

\* every MerlinView operation on a bare and on a configured view
NextView ==
    \/ complete_cursor(MaxViewCalls)
    \/ report_errors(MaxViewCalls)
    \/ find_list(MaxViewCalls)
    \/ project(MaxViewCalls)
    \/ which_path(MaxViewCalls)
    \/ which_with_ext(MaxViewCalls)
    \/ type_enclosing(MaxViewCalls)
    \/ extension_list(MaxViewCalls)
    \/ locate(MaxViewCalls)
    \/ set_packages(MaxViewCalls)
    \/ add_build_path(MaxViewCalls)
    \/ add_source_path(MaxViewCalls)
    \/ extension_enable(MaxViewCalls)
    \/ extension_disable(MaxViewCalls)
    \/ ExecStore(ConfiguredPaths, OpamAnswers)
    \/ Popen
    \/ Communicate(HistoryOutputs, ErrorOutputs)
    \/ Parse

SpecView == InitView /\ [][NextView]_vars

\* changes of the view's settings between calls of the tool
NextFresh ==
    \/ report_errors(MaxFreshCalls)
    \/ type_enclosing(MaxFreshCalls)
    \/ set_packages(MaxFreshCalls)
    \/ add_build_path(MaxFreshCalls)
    \/ add_source_path(MaxFreshCalls)
    \/ extension_enable(MaxFreshCalls)
    \/ extension_disable(MaxFreshCalls)
    \/ ExecStore(ConfiguredPaths, OpamAnswers)
    \/ Popen
    \/ Communicate(HistoryOutputs, ErrorOutputs)
    \/ Parse

SpecFresh == InitView /\ [][NextFresh]_vars

\* tracked command() calls that end in every way a call can end
NextVerbosity ==
    \/ StartCommand(VerbosityRequests, GlobalFlags, MaxVerbosityCalls)
    \/ ExecStore(ConfiguredPaths, OpamAnswers)
    \/ Popen
    \/ Communicate(VerbosityOutputs, ErrorOutputs)
    \/ Parse

SpecVerbosity == Init /\ [][NextVerbosity]_vars

----------------------------------------------------------------------------
(* Applications of fmtpos. *)

Seqs(S, n) == UNION { [1..k -> S] : k \in 0..n }

Positions == 0..MaxPos

\* dicts over the keys line and col, each present or absent, with or without
\* another key
LineColDicts ==
    { {<<"line", l>>, <<"col", c>>} : l \in Positions, c \in Positions }
    \cup { {<<"line", l>>} : l \in Positions }
    \cup { {<<"col", c>>} : c \in Positions }
    \cup { {} }

Dicts == LineColDicts \cup { d \cup {<<"character", 0>>} : d \in LineColDicts }

\* None, dicts, tuples and lists of any length, and scalars
FmtArgs ==
    { [shape |-> "None", seq |-> <<>>, dict |-> {}] }
    \cup { [shape |-> "dict", seq |-> <<>>, dict |-> d] : d \in Dicts }
    \cup { [shape |-> sh, seq |-> q, dict |-> {}] :
             sh \in {"tuple", "list"}, q \in Seqs(Positions, MaxSeqLen) }
    \cup { [shape |-> "int", seq |-> <<n>>, dict |-> {}] : n \in Positions }
    \cup { [shape |-> "str", seq |-> <<>>, dict |-> {}] }

FmtposCall ==
    /\ \E arg \in FmtArgs : fmt' = [arg |-> arg, result |-> fmtpos(arg)]
    /\ UNCHANGED <<sessionVars, view>>

SpecFmtpos == Init /\ [][FmtposCall]_vars

----------------------------------------------------------------------------
(* Claims. *)

\* the latest call was a command() that decoded the tool's output
Decoded == pc = "idle" /\ call.op = "command" /\ call.parsed

ExceptionOf(cls) ==
    IF cls = "failure" THEN "Failure"
    ELSE IF cls = "error" THEN "Error"
    ELSE "MerlinException"

\* C1: a response envelope of class "failure", "error" or "exception" makes
\* command() raise Failure, Error or MerlinException respectively, with the
\* envelope's value as the exception's value, for every shape of the value
C1_ErrorClassesRaise ==
    Decoded =>
        \A cls \in {"failure", "error", "exception"}, val \in Payloads,
           notes \in Notifications :
            call.response[1] = ObjectText(Envelope(cls, val, notes)) =>
                /\ outcome.kind = "raise"
                /\ outcome.exc = ExceptionOf(cls)
                /\ outcome.value = PyValue(val.t, val.text)

\* C1 witness: an "exception" envelope with a null value was decoded
C1_Witness ==
    /\ Decoded
    /\ \E notes \in Notifications :
          call.response[1] =
              ObjectText(Envelope("exception", [text |-> "null", t |-> "null"], notes))
    /\ outcome.exc = "MerlinException"

\* C2: a response envelope of class "return" makes command() return exactly the
\* envelope's value and raise nothing, whatever the notifications are
C2_ReturnGivesValue ==
    Decoded =>
        \A val \in Payloads, notes \in Notifications :
            call.response[1] = ObjectText(Envelope("return", val, notes)) =>
                /\ outcome.kind = "return"
                /\ outcome.exc = ""
                /\ outcome.value = PyValue(val.t, val.text)

\* C2 witness: a "return" envelope with two notifications was decoded
C2_Witness ==
    /\ Decoded
    /\ \E val \in Payloads :
          call.response[1] =
              ObjectText(Envelope("return", val,
                                  [text |-> "[\"n1\", \"n2\"]", msgs |-> <<"n1", "n2">>]))
    /\ outcome.kind = "return"

\* C3 (as claimed): every parsed response whose class is not "return" makes
\* command() raise, carrying the original value; it never returns normally
C3_NonReturnAlwaysRaises ==
    Decoded =>
        \A cls \in Classes \ {"return"}, val \in Payloads, notes \in Notifications :
            call.response[1] = ObjectText(Envelope(cls, val, notes)) =>
                /\ outcome.kind = "raise"
                /\ outcome.value = PyValue(val.t, val.text)

\* the tool's output is not JSON, or is JSON lacking an envelope field
Malformed(text) ==
    \/ text \in NonJson
    \/ \E has \in (SUBSET EnvelopeFields) \ {EnvelopeFields}, cls \in Classes,
          val \in Payloads, notes \in Notifications :
            text = ObjectText(JsonObject(has, cls, val, notes))

\* C9 (as claimed): output that is not JSON, or JSON lacking class, value or
\* notifications, makes command() raise a dedicated ProtocolError
C9_ProtocolError ==
    (Decoded /\ Malformed(call.response[1])) =>
        (outcome.kind = "raise" /\ outcome.exc = "ProtocolError")

\* C10 (as claimed): fmtpos gives "<line>:<col>" for a mapping with line and col
\* and for a pair, "end" for None, and ValueError for every other argument
C10_FmtposShapes ==
    LET arg == fmt.arg
        isMapping == arg.shape = "dict" /\ DictHas(arg.dict, "line") /\ DictHas(arg.dict, "col")
        isPair == arg.shape \in {"tuple", "list"} /\ Len(arg.seq) = 2
    IN  arg.shape # "none" =>
            IF isMapping
            THEN fmt.result = FmtReturn(ToString(DictGet(arg.dict, "line")) \o ":"
                                        \o ToString(DictGet(arg.dict, "col")))
            ELSE IF isPair
            THEN fmt.result = FmtReturn(ToString(arg.seq[1]) \o ":" \o ToString(arg.seq[2]))
            ELSE IF arg.shape = "None"
            THEN fmt.result = FmtReturn("end")
            ELSE fmt.result = FmtRaise("ValueError")

\* the entries of a history that carry a response
WithResponse(hist) == { hist[i] : i \in { j \in 1..Len(hist) : hist[j][2] # None } }

\* exec records the command as pending (lines 105-107)
RecordsPending == pc = "exec" /\ pc' = "spawn"
\* exec records the result of the run (lines 132-133)
RecordsResult == pc = "communicate" /\ pc' \in {"parse", "clear"}

\* C4: a tracked call emits -verbosity 0 when its key differs from the key of
\* the previous tracked call of the session (or there was none), and one more
\* than the previous tracked call emitted when the key is the same; with
\* track_verbosity=True the key is the call's argument list
C4_VerbosityTracking ==
    [][ (pc = "idle" /\ pc' = "exec" /\ call'.op = "command"
         /\ Truthy(call'.req.track_verbosity)) =>
          LET t == call'.req.track_verbosity
              k == IF t.tag = "True" THEN call'.req.args ELSE t.list
              i == CHOOSE j \in 1..Len(call'.cmdline) : call'.cmdline[j] = "-verbosity"
          IN  /\ \E j \in 1..Len(call'.cmdline) : call'.cmdline[j] = "-verbosity"
              /\ call'.cmdline[i + 1] =
                    IF lastTracked[1] = Some(k)
                    THEN ToString(lastTracked[2][1] + 1)
                    ELSE "0" ]_vars

\* C4 witness: a key was used twice in a row (emitting 0 then 1) and the call
\* after it, with another key, emits 0 again
C4_Witness ==
    /\ pc = "exec"
    /\ ncalls = 3
    /\ call.cmdline = <<"server", "errors", "-verbosity", "0">>
    /\ Len(_last_commands) = 2
    /\ _last_commands[1][1] = <<"ocamlmerlin", "server">> \o TypeArgs \o <<"-verbosity", "1">>
    /\ _last_commands[2][1] = <<"ocamlmerlin", "server">> \o TypeArgs \o <<"-verbosity", "0">>

\* C5: the history never holds more than 5 entries; whatever is recorded is put
\* at the front with the older entries behind it in their order; and recording
\* a command distinct from the front entry's into a history of 5 evicts the
\* last entry and keeps the other four in order
C5_HistoryBounded ==
    /\ [](Len(_last_commands) <= 5)
    /\ [][ (RecordsPending \/ RecordsResult) =>
            LET old == _last_commands
                new == _last_commands'
                entry == <<call'.command, call'.response, call'.errors>>
            IN  /\ new # <<>> /\ new[1] = entry
                /\ \/ (old # <<>> /\ Tail(new) = Tail(old))
                   \/ Tail(new) = SubSeq(old, 1, Len(new) - 1)
                /\ (Len(old) = 5 /\ old[1][1] # call'.command) =>
                       new = <<entry>> \o SubSeq(old, 1, 4) ]_vars

\* C5 witness: a command distinct from the front entry's was recorded into a
\* history of 5, whose last entry is gone
C5_Witness ==
    /\ pc = "spawn"
    /\ Len(call.hist0) = 5
    /\ call.hist0[1][1] # call.command
    /\ call.hist0[5] # call.hist0[4]
    /\ _last_commands = <<<<call.command, None, None>>>> \o SubSeq(call.hist0, 1, 4)

\* the history hist with entry put in front, cut to 5 entries
PutInFront(entry, hist) == SubSeq(<<entry>> \o hist, 1, IF Len(hist) >= 5 THEN 5 ELSE Len(hist) + 1)

\* C6 (as claimed): the command is recorded as a pending entry at the front
\* before the spawn, the result overwrites that entry, and a completed exec
\* adds exactly one entry to the history
C6_ExactlyOneEntry ==
    [][ /\ RecordsPending => _last_commands'[1] = <<call'.command, None, None>>
        /\ RecordsResult =>
              _last_commands' =
                  PutInFront(<<call.command, call'.response, call'.errors>>, call.hist0) ]_vars

\* C6 (amended): the command is recorded as a pending entry at the front before
\* the spawn and the result overwrites that entry; a completed exec adds exactly
\* one entry, unless the front entry was already the pending entry of the same
\* command, which it then reuses, adding none
C6_AtMostOneEntry ==
    [][ /\ RecordsPending => _last_commands'[1] = <<call'.command, None, None>>
        /\ RecordsResult =>
              LET entry == <<call.command, call'.response, call'.errors>>
                  h == call.hist0
              IN  /\ call'.response # None
                  /\ _last_commands[1] = <<call.command, None, None>>
                  /\ _last_commands' = [_last_commands EXCEPT ![1] = entry]
                  /\ IF h # <<>> /\ h[1] = <<call.command, None, None>>
                     THEN _last_commands' = [h EXCEPT ![1] = entry]
                     ELSE _last_commands' = PutInFront(entry, h) ]_vars

\* C6 witness: an exec has completed and its result sits in the front entry, the
\* one entry it added to a history that already held entries
C6_Witness ==
    /\ pc = "parse"
    /\ call.hist0 # <<>>
    /\ Len(_last_commands) = Len(call.hist0) + 1
    /\ _last_commands[1] = <<call.command, call.response, call.errors>>
    /\ call.response # None
    /\ Tail(_last_commands) = call.hist0

\* C7: when Popen finds no executable, the call ends by raising the spawn
\* failure: no second spawn, no response decoded, no value returned
C7_SpawnFailurePropagates ==
    call.not_found =>
        /\ pc = "idle"
        /\ outcome.kind = "raise"
        /\ outcome.exc = "OSError"
        /\ call.spawns = 1
        /\ call.response = None
        /\ ~call.parsed

\* C7 witness: a command() call ended on a spawn failure
C7_Witness ==
    /\ call.not_found
    /\ call.op = "command"
    /\ pc = "idle"
    /\ outcome.exc = "OSError"

\* C8 (as claimed): after a failed spawn the history is identical to the history
\* before the operation
C8_HistoryUnmodified ==
    call.not_found => _last_commands = call.hist0

\* C8 (amended): after a failed spawn the history is the history before the
\* operation with the pending entry of the command at the front (put in front,
\* the last of 5 entries evicted, unless it was the front entry already); no
\* entry carrying a response was added
C8_OnlyPendingAdded ==
    call.not_found =>
        LET pending == <<call.command, None, None>>
            h == call.hist0
        IN  /\ _last_commands =
                  IF h # <<>> /\ h[1] = pending THEN h ELSE PutInFront(pending, h)
            /\ WithResponse(_last_commands) \subseteq WithResponse(h)

\* C8 witness: a spawn failed with 5 entries in the history before it
C8_Witness ==
    /\ call.not_found
    /\ Len(call.hist0) = 5
    /\ _last_commands # call.hist0

----------------------------------------------------------------------------
(* Claims on the argument list. *)

\* for each x of list, in order: flag, x
RECURSIVE Flagged(_, _)
Flagged(flag, list) ==
    IF list = <<>> THEN <<>> ELSE <<flag, Head(list)>> \o Flagged(flag, Tail(list))

\* the list of an optional argument, nothing when it is absent
Given(o) == IF o = None THEN <<>> ELSE o[1]

\* C11: the argument list is "server", the verb's tokens, -filename, -verbosity,
\* every -extension, every -package, every -dot-merlin, every -build-path, every
\* -source-path, -log-file -, the global flags, the call's flags, in this order;
\* each flag is followed by its value, lists keep their order, and an absent or
\* empty input contributes nothing
C11_ArgumentOrder ==
    call.op = "command" =>
        LET r == call.req
        IN  call.cmdline =
                <<"server">> \o r.args
                \o (IF r.filename \in {None, Some("")} THEN <<>> ELSE <<"-filename", r.filename[1]>>)
                \o (IF r.track_verbosity = KeyTrue THEN <<"-verbosity", "0">> ELSE <<>>)
                \o Flagged("-extension", Given(r.extensions))
                \o Flagged("-package", Given(r.packages))
                \o Flagged("-dot-merlin", Given(r.dot_merlins))
                \o Flagged("-build-path", Given(r.build_path))
                \o Flagged("-source-path", Given(r.source_path))
                \o (IF r.debug THEN <<"-log-file", "-">> ELSE <<>>)
                \o call.flags
                \o Given(r.other_flags)

\* C11 witness: a call with every optional input given was built and spawned
C11_Witness ==
    /\ pc = "communicate"
    /\ call.req.filename = Some("a.ml")
    /\ call.req.track_verbosity = KeyTrue
    /\ call.req.debug
    /\ call.flags # <<>>
    /\ \A l \in {call.req.extensions, call.req.packages, call.req.dot_merlins,
                  call.req.build_path, call.req.source_path, call.req.other_flags} :
          l # None /\ Len(l[1]) >= 2

----------------------------------------------------------------------------
(* Claims on restart. *)

\* the session fields as __init__ and clear() leave them
FreshSession ==
    /\ _settings = None
    /\ _binary_path = None
    /\ _last_commands = <<>>
    /\ _verbosity_counter = <<None, None>>

\* C13: once restart has been invoked and has ended, whatever the outcome of the
\* stop-server run, the resolved binary path, the settings reference, the command
\* history and the verbosity counter have their initial values, and the
\* stop-server command was issued before the state was cleared
C13_RestartResets ==
    (call.op = "restart" /\ pc = "idle") =>
        /\ FreshSession
        /\ call.cmdline = <<"server", "stop-server">>
        /\ call.spawns = 1

----------------------------------------------------------------------------
(* Claims on the verbosity counter across calls. *)

\* command() builds the argument list of a call (lines 150-181)
BuildsCommand == pc = "idle" /\ pc' = "exec" /\ call'.op = "command"

\* C19: a call whose tracking key is absent or falsy emits no -verbosity token
\* and leaves the stored key and count as they were, so a tracked call that
\* follows an untracked one still emits one more than the previous tracked call
\* with its key emitted
C19_UntrackedKeepsCounter ==
    [][ /\ (BuildsCommand /\ ~Truthy(call'.req.track_verbosity)) =>
              /\ ~HasVerbosity(call'.cmdline)
              /\ _verbosity_counter' = _verbosity_counter
        /\ (/\ BuildsCommand
            /\ Truthy(call'.req.track_verbosity)
            /\ call.op = "command"
            /\ ~Truthy(call.req.track_verbosity)
            /\ lastTracked[1] = Some(EffectiveKey(call'.req.track_verbosity, call'.req.args))) =>
              /\ HasVerbosity(call'.cmdline)
              /\ EmittedVerbosity(call'.cmdline) = lastTracked[2][1] + 1 ]_vars

\* C19 witness: a tracked call emitted 0, an untracked call followed, and the
\* next tracked call with the same key emits 1
C19_Witness ==
    /\ pc = "spawn"
    /\ Len(_last_commands) = 3
    /\ _last_commands[3][1] = <<"ocamlmerlin", "server">> \o TypeArgs \o <<"-verbosity", "0">>
    /\ _last_commands[2][1] = <<"ocamlmerlin", "server">> \o ErrorsArgs
    /\ _last_commands[1][1] = <<"ocamlmerlin", "server">> \o TypeArgs \o <<"-verbosity", "1">>
    /\ _verbosity_counter = <<Some(TypeArgs), Some(1)>>

\* the exceptions a command() call ends with when it fails
CallFailures == {"OSError", "ValueError", "Failure", "Error", "MerlinException"}

\* C20: the count is advanced while the argument list is built, before anything
\* is spawned, and a call that then fails (spawn failure, undecodable output,
\* Failure, Error or MerlinException) does not take it back: the next call with
\* the same key emits one more than the failed call emitted
C20_NoRollback ==
    [][ /\ (BuildsCommand /\ Truthy(call'.req.track_verbosity)) =>
              /\ call'.spawns = 0
              /\ HasVerbosity(call'.cmdline)
              /\ _verbosity_counter' =
                    <<Some(EffectiveKey(call'.req.track_verbosity, call'.req.args)),
                      Some(EmittedVerbosity(call'.cmdline))>>
        /\ (/\ BuildsCommand
            /\ Truthy(call'.req.track_verbosity)
            /\ call.op = "command"
            /\ Truthy(call.req.track_verbosity)
            /\ outcome.kind = "raise"
            /\ outcome.exc \in CallFailures
            /\ EffectiveKey(call'.req.track_verbosity, call'.req.args)
                  = EffectiveKey(call.req.track_verbosity, call.req.args)) =>
              EmittedVerbosity(call'.cmdline) = EmittedVerbosity(call.cmdline) + 1 ]_vars

\* C20 witness: a tracked call emitted 0 and was not spawned, the next emitted 1
\* and the tool answered with a failure, and the third call with the key emits 2
C20_Witness ==
    /\ pc = "spawn"
    /\ Len(_last_commands) = 3
    /\ _last_commands[3] = <<<<"ocamlmerlin", "server">> \o TypeArgs \o <<"-verbosity", "0">>, None, None>>
    /\ _last_commands[2] = <<<<"ocamlmerlin", "server">> \o TypeArgs \o <<"-verbosity", "1">>,
                             Some(ClassText("failure")), Some("")>>
    /\ call.cmdline = <<"server">> \o TypeArgs \o <<"-verbosity", "2">>

----------------------------------------------------------------------------
(* Claims on the binary path. *)

\* exec() picks the binary of the call (lines 103-106)
PicksBinary == pc = "exec" /\ pc' = "spawn"

\* clear() runs, on its own or at the end of restart()
Clears ==
    \/ pc = "clear" /\ pc' = "idle"
    \/ pc = "idle" /\ pc' = "idle" /\ call'.op = "clear" /\ ncalls' = ncalls + 1

\* C14: once the path is resolved, every call without an explicit path runs that
\* path, whatever the configured path and opam's directory are by then, and
\* nothing but clear() (on its own or in restart) drops it; the first call
\* without an explicit path after that resolves it again
C14_PathCached ==
    [][ /\ (PicksBinary /\ call.req.binary_path = None /\ _binary_path # None) =>
              /\ call'.command[1] = _binary_path[1]
              /\ _binary_path' = _binary_path
        /\ (PicksBinary /\ call.req.binary_path = None /\ _binary_path = None) =>
              /\ _binary_path' # None
              /\ call'.command[1] = _binary_path'[1]
        /\ (_binary_path # None /\ _binary_path' # _binary_path) =>
              (Clears /\ _binary_path' = None)
        /\ Clears => _binary_path' = None ]_vars

\* C14 witness: a call without an explicit path runs the bare name resolved
\* earlier although a path is configured and opam has the tool by now
C14_Witness ==
    /\ pc = "spawn"
    /\ call.req.binary_path = None
    /\ call.hist0 # <<>>
    /\ call.merlin_path = Some("/usr/local/bin/ocamlmerlin")
    /\ call.opam_has_merlin
    /\ call.command[1] = "ocamlmerlin"
    /\ _binary_path = Some("ocamlmerlin")

\* C15: when the path is resolved, the configured path is taken if one is set
\* (not None, not empty); otherwise opam's ocamlmerlin if it is there as an
\* executable file; otherwise the bare name "ocamlmerlin"
C15_ResolutionPriority ==
    [][ (PicksBinary /\ call.req.binary_path = None /\ _binary_path = None) =>
          LET configured == call'.merlin_path
              chosen == call'.command[1]
          IN  /\ configured \notin {None, Some("")} => chosen = configured[1]
              /\ (configured \in {None, Some("")} /\ call'.opam_has_merlin) =>
                    chosen = OpamBinPath
              /\ (configured \in {None, Some("")} /\ ~call'.opam_has_merlin) =>
                    chosen = "ocamlmerlin"
              /\ _binary_path' = Some(chosen) ]_vars

\* C15 witness: with a path configured and the tool in opam's directory, the
\* first call of the session runs the configured path
C15_Witness ==
    /\ pc = "spawn"
    /\ ncalls = 1
    /\ call.req.binary_path = None
    /\ call.merlin_path = Some("/usr/local/bin/ocamlmerlin")
    /\ call.opam_has_merlin
    /\ call.command[1] = "/usr/local/bin/ocamlmerlin"

----------------------------------------------------------------------------
(* Claims on MerlinView. *)

\* whether the tokens of sub occur in seq in this relative order
RECURSIVE IsSubseq(_, _)
IsSubseq(sub, seq) ==
    IF sub = <<>> THEN TRUE
    ELSE IF seq = <<>> THEN FALSE
    ELSE IF Head(sub) = Head(seq) THEN IsSubseq(Tail(sub), Tail(seq))
    ELSE IsSubseq(sub, Tail(seq))

\* C12: complete_cursor(prefix, line, col) with the documentation toggle off and
\* packages P configured builds an argument list that holds, in this relative
\* order, "complete-prefix", "-position", "<line>:<col>", "-prefix", prefix,
\* "-doc", "n", and then "-package", p for each p of P; with no extension
\* configured it holds no -extension token
C12_CompleteCursorTokens ==
    (call.facade = "complete_cursor" /\ call.with_doc \in {"None", "False"}) =>
        /\ IsSubseq(<<"complete-prefix", "-position",
                      ToString(call.input.line[1]) \o ":" \o ToString(call.input.col[1]),
                      "-prefix", call.input.names[1], "-doc", "n">>
                    \o Flagged("-package", Given(view.ocamlmerlin_packages)),
                    call.cmdline)
        /\ Given(view.ocamlmerlin_extensions) = <<>> =>
              \A i \in 1..Len(call.cmdline) : call.cmdline[i] # "-extension"

\* C12 witness: completion of "Li" at (10,3) with packages ["core"], no
\* extension and the toggle off was built and spawned
C12_Witness ==
    /\ pc = "communicate"
    /\ call.facade = "complete_cursor"
    /\ call.with_doc = "False"
    /\ view.ocamlmerlin_packages = Some(<<"core">>)
    /\ view.ocamlmerlin_extensions = None
    /\ call.cmdline = <<"server", "complete-prefix", "-position", "10:3", "-prefix", "Li",
                        "-doc", "n", "-verbosity", "0", "-package", "core">>

\* the MerlinView methods that change the view's settings
Mutators ==
    {"set_packages", "add_build_path", "add_source_path", "extension_enable", "extension_disable"}

\* C16: each mutating operation completes without raising and returns nothing,
\* a later read of the setting gives the new value (the package list set, the
\* path added, the extension enabled or disabled), and it spawns no process
\* and adds no history entry
C16_MutatorsUpdateStore ==
    (call.facade \in Mutators) =>
        /\ outcome = Returned(PyNone, <<>>)
        /\ call.facade = "set_packages" => view.ocamlmerlin_packages = Some(call.input.names)
        /\ call.facade = "add_build_path" =>
              call.input.names[1] \in Range(OrEmpty(view.ocamlmerlin_buildpath))
        /\ call.facade = "add_source_path" =>
              call.input.names[1] \in Range(OrEmpty(view.ocamlmerlin_sourcepath))
        /\ call.facade = "extension_enable" =>
              Range(call.input.names) \subseteq Range(OrEmpty(view.ocamlmerlin_extensions))
        /\ call.facade = "extension_disable" =>
              Range(call.input.names) \cap Range(OrEmpty(view.ocamlmerlin_extensions)) = {}
        /\ call.spawns = 0
        /\ _last_commands = call.hist0

\* C17: the -extension, -package, -build-path and -source-path tokens of every
\* invocation made through a view are the lists the view's settings hold when
\* the call is made, whatever was set and called before
C17_ListsReadFresh ==
    [][ (pc = "idle" /\ pc' = "exec" /\ call'.facade # "") =>
          /\ ValuesOf("-extension", call'.cmdline) = Given(view.ocamlmerlin_extensions)
          /\ ValuesOf("-package", call'.cmdline) = Given(view.ocamlmerlin_packages)
          /\ ValuesOf("-build-path", call'.cmdline) = Given(view.ocamlmerlin_buildpath)
          /\ ValuesOf("-source-path", call'.cmdline) = Given(view.ocamlmerlin_sourcepath) ]_vars

\* C17 witness: a call made after the packages were set and an extension was
\* dropped carries the new lists, the call before them carried the old ones
C17_Witness ==
    /\ pc = "spawn"
    /\ Len(_last_commands) = 2
    /\ ValuesOf("-package", _last_commands[2][1]) = <<"batteries">>
    /\ ValuesOf("-extension", _last_commands[2][1]) = <<"meta">>
    /\ ValuesOf("-package", _last_commands[1][1]) = <<"core">>
    /\ ValuesOf("-extension", _last_commands[1][1]) = <<>>

\* the MerlinView methods that ask the tool
ToolFacades ==
    {"complete_cursor", "report_errors", "find_list", "project", "which_path",
     "which_with_ext", "type_enclosing", "extension_list", "locate"}

\* C18: every operation that asks the tool spawns exactly one process per call,
\* never none and never a second one, and ends only after that process has ended
C18_OneSpawnPerCall ==
    (call.facade \in ToolFacades /\ pc = "idle") =>
        /\ call.spawns = 1
        /\ ~call.not_found => (call.response # None /\ call.errors # None)

====
